---- MODULE Spec2Model ----
(***************************************************************************)
(* A model of the SLA genetic scheduler: the fitness function of           *)
(* fitness.py, the selection, crossover and mutation operators of          *)
(* ga_core.py and the generation loop of run_ga.                           *)
(*                                                                         *)
(* Number representation.  Fitness scores are sums of multiples of 0.05;   *)
(* they are kept as integers in hundredths (0.5 is 50, -0.25 is -25).      *)
(* Probabilities and draws of rng.random() are integers in units of        *)
(* 1/ProbScale.  Mutation rates are integers in units of 1/RateScale.      *)
(* Averages and improvement percentages are exact fractions [num, den].    *)
(* Python's None is the empty sequence <<>>, a present value v is <<v>>.   *)
(* Python indices are kept 0-based; sequence s is read at s[i + 1].        *)
(***************************************************************************)
EXTENDS Integers, Sequences, FiniteSets, TLC

VARIABLES
    \* ---- compute_schedule_fitness applied to one schedule ----
    f_schedule,       \* the schedule handed to compute_schedule_fitness
    f_result,         \* what compute_schedule_fitness did with it
    f_pc,             \* "input", "edited" (one field changed) or "evaluated"
    \* ---- the Selector applied to one fitness vector ----
    s_fitnesses,      \* the fitness vector handed to build_selection_cdf
    s_probs,          \* softmax(s_fitnesses), once built
    s_cdf,            \* build_selection_cdf(s_fitnesses), once built
    s_r,              \* the draw r = rng.random() of sample_index_from_cdf
    s_result,         \* what sample_index_from_cdf did
    s_pc,             \* "input", "built" or "sampled"
    \* ---- the parameters of run_ga (the same for every run) ----
    population_size,
    mutation_rate,
    min_generations,
    max_generations,
    rng_seed,
    improvement_threshold,
    mutation_halve_interval,
    \* ---- the locals of run_ga, one value per run (invocation) ----
    runs,                        \* the invocations of run_ga under way
    rng,
    population,
    fitnesses,
    history,
    prev_avg_fitness,
    current_mutation_rate,
    avg_at_last_mutation_check,
    gen,
    avg_f,
    cdf,
    new_population,
    best_index,
    best_schedule,
    best_fitness,
    raised,                      \* the exception that ended the run, or "none"
    pc,                          \* where the run is in run_ga
    \* ---- the breeding of run_ga with its schedules as objects ----
    h_heap,            \* the Assignment objects (dicts): identity -> fields
    h_population,      \* population, each schedule as activity -> identity
    h_new_population,  \* new_population, likewise
    h_rng,             \* the generator
    h_gen,             \* the generations bred so far
    h_pc               \* "breed" or "off"

fitVars == <<f_schedule, f_result, f_pc>>

selVars == <<s_fitnesses, s_probs, s_cdf, s_r, s_result, s_pc>>

paramVars ==
    <<population_size, mutation_rate, min_generations, max_generations, rng_seed,
      improvement_threshold, mutation_halve_interval>>

runVars ==
    <<runs, rng, population, fitnesses, history, prev_avg_fitness,
      current_mutation_rate, avg_at_last_mutation_check, gen, avg_f, cdf,
      new_population, best_index, best_schedule, best_fitness, raised, pc>>

heapVars == <<h_heap, h_population, h_new_population, h_rng, h_gen, h_pc>>

vars == <<fitVars, selVars, heapVars, paramVars, runVars, heapVars>>

Range(seq) == {seq[i] : i \in 1..Len(seq)}

Abs(x) == IF x < 0 THEN -x ELSE x

(***************************************************************************)
(* data.py: the catalog                                                    *)
(***************************************************************************)
ACTIVITIES ==
    "SLA101A" :> [enrollment |-> 40, preferred |-> {"Glen", "Lock", "Banks"},
                  others |-> {"Numen", "Richards", "Shaw", "Singer"}] @@
    "SLA101B" :> [enrollment |-> 35, preferred |-> {"Glen", "Lock", "Banks"},
                  others |-> {"Numen", "Richards", "Shaw", "Singer"}] @@
    "SLA191A" :> [enrollment |-> 45, preferred |-> {"Glen", "Lock", "Banks"},
                  others |-> {"Numen", "Richards", "Shaw", "Singer"}] @@
    "SLA191B" :> [enrollment |-> 40, preferred |-> {"Glen", "Lock", "Banks"},
                  others |-> {"Numen", "Richards", "Shaw", "Singer"}] @@
    "SLA201"  :> [enrollment |-> 60,
                  preferred |-> {"Glen", "Banks", "Zeldin", "Lock", "Singer"},
                  others |-> {"Richards", "Uther", "Shaw"}] @@
    "SLA291"  :> [enrollment |-> 50,
                  preferred |-> {"Glen", "Banks", "Zeldin", "Lock", "Singer"},
                  others |-> {"Richards", "Uther", "Shaw"}] @@
    "SLA303"  :> [enrollment |-> 25, preferred |-> {"Glen", "Zeldin"},
                  others |-> {"Banks"}] @@
    "SLA304"  :> [enrollment |-> 20, preferred |-> {"Singer", "Uther"},
                  others |-> {"Richards"}] @@
    "SLA394"  :> [enrollment |-> 15, preferred |-> {"Tyler", "Singer"},
                  others |-> {"Richards", "Zeldin"}] @@
    "SLA449"  :> [enrollment |-> 30, preferred |-> {"Tyler", "Zeldin", "Uther"},
                  others |-> {"Zeldin", "Shaw"}] @@
    "SLA451"  :> [enrollment |-> 90, preferred |-> {"Lock", "Banks", "Zeldin"},
                  others |-> {"Tyler", "Singer", "Shaw", "Glen"}]

\* ACTIVITIES.keys() in insertion order: the order every loop over it follows.
ActivityOrder ==
    <<"SLA101A", "SLA101B", "SLA191A", "SLA191B", "SLA201", "SLA291",
      "SLA303", "SLA304", "SLA394", "SLA449", "SLA451">>

FACILITATORS ==
    <<"Lock", "Glen", "Banks", "Richards", "Shaw", "Singer", "Uther", "Tyler",
      "Numen", "Zeldin">>

ROOMS ==
    "Beach 201"  :> [capacity |-> 18,  has_lab |-> FALSE, has_projector |-> TRUE] @@
    "Beach 301"  :> [capacity |-> 25,  has_lab |-> TRUE,  has_projector |-> TRUE] @@
    "Frank 119"  :> [capacity |-> 95,  has_lab |-> TRUE,  has_projector |-> TRUE] @@
    "Loft 206"   :> [capacity |-> 55,  has_lab |-> FALSE, has_projector |-> FALSE] @@
    "Loft 310"   :> [capacity |-> 48,  has_lab |-> TRUE,  has_projector |-> FALSE] @@
    "James 325"  :> [capacity |-> 110, has_lab |-> TRUE,  has_projector |-> TRUE] @@
    "Roman 201"  :> [capacity |-> 40,  has_lab |-> FALSE, has_projector |-> FALSE] @@
    "Roman 216"  :> [capacity |-> 80,  has_lab |-> TRUE,  has_projector |-> TRUE] @@
    "Slater 003" :> [capacity |-> 32,  has_lab |-> TRUE,  has_projector |-> TRUE]

\* list(ROOMS.keys()) in insertion order.
RoomOrder ==
    <<"Beach 201", "Beach 301", "Frank 119", "Loft 206", "Loft 310",
      "James 325", "Roman 201", "Roman 216", "Slater 003">>

TIMES == <<"10 AM", "11 AM", "12 PM", "1 PM", "2 PM", "3 PM">>

FACILITATOR_TIME_PREFERENCES ==
    "Glen"   :> [like |-> ("10 AM" :> 10 @@ "11 AM" :> 10),
                 avoid |-> ("3 PM" :> (-20))] @@
    "Banks"  :> [like |-> ("10 AM" :> 10 @@ "12 PM" :> 10),
                 avoid |-> ("11 AM" :> (-10) @@ "1 PM" :> (-10))] @@
    "Tyler"  :> [like |-> ("2 PM" :> 10 @@ "3 PM" :> 10),
                 avoid |-> ("10 AM" :> (-20) @@ "11 AM" :> (-20))] @@
    "Singer" :> [like |-> <<>>,
                 avoid |-> ("12 PM" :> (-30))]

COURSE_EQUIPMENT_REQUIREMENTS ==
    "SLA304"  :> [lab |-> TRUE,  projector |-> FALSE] @@
    "SLA303"  :> [lab |-> TRUE,  projector |-> TRUE] @@
    "SLA191A" :> [lab |-> TRUE,  projector |-> FALSE] @@
    "SLA191B" :> [lab |-> TRUE,  projector |-> FALSE] @@
    "SLA291"  :> [lab |-> TRUE,  projector |-> FALSE] @@
    "SLA449"  :> [lab |-> FALSE, projector |-> TRUE] @@
    "SLA451"  :> [lab |-> TRUE,  projector |-> TRUE]

(***************************************************************************)
(* fitness.py                                                              *)
(***************************************************************************)
\* TIME_INDEX = {t: i for i, t in enumerate(TIMES)}
TIME_INDEX ==
    [t \in Range(TIMES) |-> CHOOSE i \in 0..(Len(TIMES) - 1) : TIMES[i + 1] = t]

\* room_name.split()[0]: the text before the first space of each catalog room.
\* It is applied to catalog rooms only (any other room has raised before).
_get_building(room_name) ==
    CASE room_name \in {"Beach 201", "Beach 301"}  -> "Beach"
      [] room_name = "Frank 119"                   -> "Frank"
      [] room_name \in {"Loft 206", "Loft 310"}    -> "Loft"
      [] room_name = "James 325"                   -> "James"
      [] room_name \in {"Roman 201", "Roman 216"}  -> "Roman"
      [] room_name = "Slater 003"                  -> "Slater"

\* The three helper maps, read at one key (a missing key is the empty list).
room_time_to_activities(schedule, room, time) ==
    {a \in DOMAIN schedule : schedule[a].room = room /\ schedule[a].time = time}

fac_time_to_activities(schedule, facilitator, time) ==
    {a \in DOMAIN schedule :
        schedule[a].facilitator = facilitator /\ schedule[a].time = time}

fac_to_activities(schedule, facilitator) ==
    {a \in DOMAIN schedule : schedule[a].facilitator = facilitator}

\* RoomConflictScore charging 0.5 for each other activity in the room and slot.
RoomConflictScorePerPair(schedule, activity) ==
    LET a == schedule[activity]
    IN  -50 * (Cardinality(room_time_to_activities(schedule, a.room, a.time)) - 1)

\* Room conflict: same time and same room as another activity.
RoomConflictScore(schedule, activity) ==
    LET a == schedule[activity]
    IN  IF Cardinality(room_time_to_activities(schedule, a.room, a.time)) > 1
        THEN -50 ELSE 0

\* RoomSizeScore testing ratio > 1.5 before ratio > 3.0.
RoomSizeScoreHalfFirst(activity, room) ==
    LET enrollment == ACTIVITIES[activity].enrollment
        capacity   == ROOMS[room].capacity
    IN  IF capacity < enrollment THEN -50
        ELSE IF 2 * capacity > 3 * enrollment THEN -20
        ELSE IF capacity > 3 * enrollment THEN -40
        ELSE 30

\* Room size: capacity against expected enrollment; ratio > 3.0 is
\* capacity > 3 * enrollment, ratio > 1.5 is 2 * capacity > 3 * enrollment.
RoomSizeScore(activity, room) ==
    LET enrollment == ACTIVITIES[activity].enrollment
        capacity   == ROOMS[room].capacity
    IN  IF capacity < enrollment THEN -50
        ELSE IF capacity > 3 * enrollment THEN -40
        ELSE IF 2 * capacity > 3 * enrollment THEN -20
        ELSE 30

FacilitatorPreferenceScore(activity, facilitator) ==
    IF facilitator \in ACTIVITIES[activity].preferred THEN 50
    ELSE IF facilitator \in ACTIVITIES[activity].others THEN 20
    ELSE -10

\* Facilitator load at this time slot.
FacilitatorSlotScore(schedule, activity) ==
    LET a == schedule[activity]
        n == Cardinality(fac_time_to_activities(schedule, a.facilitator, a.time))
    IN  IF n = 1 THEN 20 ELSE IF n > 1 THEN -20 ELSE 0

TimePreferenceScore(facilitator, time) ==
    IF facilitator \notin DOMAIN FACILITATOR_TIME_PREFERENCES THEN 0
    ELSE LET prefs == FACILITATOR_TIME_PREFERENCES[facilitator]
         IN  (IF time \in DOMAIN prefs.like THEN prefs.like[time] ELSE 0)
           + (IF time \in DOMAIN prefs.avoid THEN prefs.avoid[time] ELSE 0)

EquipmentScore(activity, room) ==
    IF activity \notin DOMAIN COURSE_EQUIPMENT_REQUIREMENTS THEN 0
    ELSE LET eq_req == COURSE_EQUIPMENT_REQUIREMENTS[activity]
             required_count ==
                 (IF eq_req.lab THEN 1 ELSE 0) + (IF eq_req.projector THEN 1 ELSE 0)
             satisfied_count ==
                 (IF eq_req.lab /\ ROOMS[room].has_lab THEN 1 ELSE 0)
               + (IF eq_req.projector /\ ROOMS[room].has_projector THEN 1 ELSE 0)
         IN  IF required_count > 0
             THEN IF satisfied_count = required_count THEN 20
                  ELSE IF satisfied_count > 0 THEN -10
                  ELSE -30
             ELSE 0

\* activity_score of one pass of the per-activity loop.
ActivityScore(schedule, activity) ==
    LET a == schedule[activity]
    IN    RoomConflictScore(schedule, activity)
        + RoomSizeScore(activity, a.room)
        + FacilitatorPreferenceScore(activity, a.facilitator)
        + FacilitatorSlotScore(schedule, activity)
        + TimePreferenceScore(a.facilitator, a.time)
        + EquipmentScore(activity, a.room)

\* The sum of f[x] over the x of S, and of f[seq[i]] over the i of seq.
RECURSIVE SumOverSet(_, _)
SumOverSet(S, f) ==
    IF S = {} THEN 0
    ELSE LET x == CHOOSE y \in S : TRUE
         IN  f[x] + SumOverSet(S \ {x}, f)

RECURSIVE SumOverSeq(_, _)
SumOverSeq(seq, f) ==
    IF seq = <<>> THEN 0 ELSE f[Head(seq)] + SumOverSeq(Tail(seq), f)

\* FacilitatorLoadScore without the exception: Tyler as any other facilitator.
FacilitatorLoadScoreNoException(facilitator, total_load) ==
      (IF total_load > 4 THEN -50 ELSE 0)
    + (IF 0 < total_load /\ total_load < 3 THEN -40 ELSE 0)

\* FacilitatorLoadScore with Tyler exempt from the "< 3 activities" penalty.
FacilitatorLoadScoreTylerExempt(facilitator, total_load) ==
      (IF total_load > 4 THEN -50 ELSE 0)
    + (IF facilitator # "Tyler" /\ 0 < total_load /\ total_load < 3 THEN -40 ELSE 0)

\* Facilitator total load rule, for one roster facilitator.
FacilitatorLoadScore(facilitator, total_load) ==
      (IF total_load > 4 THEN -50 ELSE 0)
    + (IF facilitator # "Tyler"
       THEN IF 0 < total_load /\ total_load < 3 THEN -40 ELSE 0
       ELSE IF total_load = 2 THEN -40 ELSE 0)

\* PairDistanceScore rewarding a distance of 4 slots as well.
PairDistanceScoreFromFour(idx_a, idx_b) ==
      (IF Abs(idx_a - idx_b) >= 4 THEN 50 ELSE 0)
    + (IF idx_a = idx_b THEN -50 ELSE 0)

\* The two sections of one course: more than 4 slots apart, or the same slot.
PairDistanceScore(idx_a, idx_b) ==
      (IF Abs(idx_a - idx_b) > 4 THEN 50 ELSE 0)
    + (IF idx_a = idx_b THEN -50 ELSE 0)

\* One (SLA101 section, SLA191 section) combination.
CrossPairScore(schedule, act_101, act_191) ==
    LET r_101 == schedule[act_101].room
        r_191 == schedule[act_191].room
        dt    == Abs(TIME_INDEX[schedule[act_101].time]
                     - TIME_INDEX[schedule[act_191].time])
        is_roman_beach_101 == _get_building(r_101) \in {"Roman", "Beach"}
        is_roman_beach_191 == _get_building(r_191) \in {"Roman", "Beach"}
    IN    (IF dt = 0 THEN -25 ELSE 0)
        + (IF dt = 1
           THEN 50 + (IF is_roman_beach_101 # is_roman_beach_191 THEN -40 ELSE 0)
           ELSE 0)
        + (IF dt = 2 THEN 25 ELSE 0)

pairs_101_191 ==
    << <<"SLA101A", "SLA191A">>, <<"SLA101A", "SLA191B">>,
       <<"SLA101B", "SLA191A">>, <<"SLA101B", "SLA191B">> >>

NamedActivities == {"SLA101A", "SLA101B", "SLA191A", "SLA191B"}

\* The lookups of compute_schedule_fitness that raise KeyError: ACTIVITIES[activity]
\* and ROOMS[room] in the per-activity loop, schedule[act_name] and
\* TIME_INDEX[t] for the four named sections.
RaisesKeyError(schedule) ==
    \/ \E activity \in DOMAIN schedule : activity \notin DOMAIN ACTIVITIES
    \/ \E activity \in DOMAIN schedule : schedule[activity].room \notin DOMAIN ROOMS
    \/ \E act_name \in NamedActivities : act_name \notin DOMAIN schedule
    \/ \E act_name \in NamedActivities \cap DOMAIN schedule :
          schedule[act_name].time \notin DOMAIN TIME_INDEX

\* total_load of one facilitator: len(fac_to_activities.get(facilitator, [])).
TotalLoad(schedule, facilitator) ==
    Cardinality(fac_to_activities(schedule, facilitator))

\* What the total-load loop adds at each roster facilitator.
LoadByFacilitator(schedule) ==
    [facilitator \in Range(FACILITATORS) |->
        FacilitatorLoadScore(facilitator, TotalLoad(schedule, facilitator))]

\* What the room-size rule adds at each activity of the schedule.
SizeByActivity(schedule) ==
    [activity \in DOMAIN schedule |-> RoomSizeScore(activity, schedule[activity].room)]

\* The parts of total_fitness, by the rule that adds them.
ConflictPart(schedule) ==
    SumOverSet(DOMAIN schedule,
               [activity \in DOMAIN schedule |-> RoomConflictScore(schedule, activity)])

ActivityPart(schedule) ==
    SumOverSet(DOMAIN schedule,
               [activity \in DOMAIN schedule |-> ActivityScore(schedule, activity)])

LoadPart(schedule) ==
    SumOverSeq(FACILITATORS, LoadByFacilitator(schedule))

PairPart(schedule) ==
      PairDistanceScore(TIME_INDEX[schedule["SLA101A"].time],
                        TIME_INDEX[schedule["SLA101B"].time])
    + PairDistanceScore(TIME_INDEX[schedule["SLA191A"].time],
                        TIME_INDEX[schedule["SLA191B"].time])

CrossPart(schedule) ==
    SumOverSeq(pairs_101_191,
               [pair \in Range(pairs_101_191) |->
                    CrossPairScore(schedule, pair[1], pair[2])])

\* compute_schedule_fitness: the error it raises, or the total it returns.
compute_schedule_fitness(schedule) ==
    IF RaisesKeyError(schedule)
    THEN [error |-> "KeyError", value |-> 0]
    ELSE [error |-> "none",
          value |-> ActivityPart(schedule) + LoadPart(schedule)
                    + PairPart(schedule) + CrossPart(schedule)]

\* compute_schedule_fitness with, beside the total it returns, what each rule
\* added to total_fitness on the way.
FitnessBreakdown(schedule) ==
    IF RaisesKeyError(schedule)
    THEN [error |-> "KeyError", value |-> 0, conflict |-> 0, load |-> 0,
          load_by_facilitator |-> <<>>, pair |-> 0,
          size_by_activity |-> <<>>, pair_101 |-> 0, pair_191 |-> 0]
    ELSE [error |-> "none",
          value |-> compute_schedule_fitness(schedule).value,
          conflict |-> ConflictPart(schedule),
          load |-> LoadPart(schedule),
          load_by_facilitator |-> LoadByFacilitator(schedule),
          pair |-> PairPart(schedule),
          size_by_activity |-> SizeByActivity(schedule),
          pair_101 |-> PairDistanceScore(TIME_INDEX[schedule["SLA101A"].time],
                                         TIME_INDEX[schedule["SLA101B"].time]),
          pair_191 |-> PairDistanceScore(TIME_INDEX[schedule["SLA191A"].time],
                                         TIME_INDEX[schedule["SLA191B"].time])]

(***************************************************************************)
(* schedule_repr.py                                                        *)
(***************************************************************************)
\* Every assignment of the model has the three keys and a string facilitator,
\* so the key-set, room and time tests are the ones that can fail.
validate_schedule_structure(schedule) ==
    /\ DOMAIN schedule = DOMAIN ACTIVITIES
    /\ \A activity \in DOMAIN schedule :
          /\ schedule[activity].room \in DOMAIN ROOMS
          /\ schedule[activity].time \in Range(TIMES)

(***************************************************************************)
(* random.Random, as ga_core.py uses it: a seeded stream of draws.  The    *)
(* generator is a linear congruential one: what the program relies on is   *)
(* that the stream is a function of the seed, and that a generator built   *)
(* with seed None starts from the operating system's entropy.              *)
(***************************************************************************)
RngModulus == 65536
RngMultiplier == 25173
RngIncrement == 13849
ProbScale == 10000

\* RandomInit dropping the seed: random.Random().
RandomInitUnseeded(seed, entropy) == entropy % RngModulus

\* random.Random(rng_seed)
RandomInit(seed, entropy) ==
    IF seed = <<>> THEN entropy % RngModulus ELSE seed[1] % RngModulus

\* The generator's rng after one more draw.
RngNext(state) == (RngMultiplier * state + RngIncrement) % RngModulus

\* rng.random() read off the state the draw left: a value of [0, 1).
RandomValue(state) == (state * ProbScale) \div RngModulus

\* rng.choice(seq) read off the state the draw left.
ChoiceValue(seq, state) == seq[((state * Len(seq)) \div RngModulus) + 1]

(***************************************************************************)
(* ga_core.py                                                              *)
(***************************************************************************)
\* _random_assignment: three draws, room then time then facilitator.
_random_assignment(state) ==
    LET s1 == RngNext(state)
        s2 == RngNext(s1)
        s3 == RngNext(s2)
    IN  [value |-> [room |-> ChoiceValue(RoomOrder, s1),
                    time |-> ChoiceValue(TIMES, s2),
                    facilitator |-> ChoiceValue(FACILITATORS, s3)],
         rng |-> s3]

\* The loop of create_random_schedule from the i-th activity on.
RECURSIVE RandomScheduleFrom(_, _, _)
RandomScheduleFrom(i, schedule, state) ==
    IF i > Len(ActivityOrder) THEN [value |-> schedule, rng |-> state]
    ELSE LET drawn == _random_assignment(state)
         IN  RandomScheduleFrom(i + 1, (ActivityOrder[i] :> drawn.value) @@ schedule,
                                drawn.rng)

create_random_schedule(state) == RandomScheduleFrom(1, <<>>, state)

\* [create_random_schedule(rng) for _ in range(pop_size)]
RECURSIVE initialize_population(_, _)
initialize_population(pop_size, state) ==
    IF pop_size <= 0 THEN [value |-> <<>>, rng |-> state]
    ELSE LET first == create_random_schedule(state)
             rest  == initialize_population(pop_size - 1, first.rng)
         IN  [value |-> <<first.value>> \o rest.value, rng |-> rest.rng]

\* [compute_schedule_fitness(ind) for ind in pop]: each one's outcome.
evaluate_population(pop) ==
    [i \in 1..Len(pop) |-> compute_schedule_fitness(pop[i])]

EvaluationRaises(pop) ==
    \E i \in 1..Len(pop) :
        compute_schedule_fitness(pop[i]).error # "none"

FitnessValues(pop) ==
    [i \in 1..Len(pop) |-> compute_schedule_fitness(pop[i]).value]

SeqMax(seq) == CHOOSE x \in Range(seq) : \A y \in Range(seq) : y <= x
SeqMin(seq) == CHOOSE x \in Range(seq) : \A y \in Range(seq) : x <= y

RECURSIVE SeqSum(_)
SeqSum(seq) == IF seq = <<>> THEN 0 ELSE Head(seq) + SeqSum(Tail(seq))

\* math.exp(-d / 100) in units of 1/ProbScale, for d >= 0 hundredths: the
\* series of exp on the part below 0.5, times exp(-0.5) for each half above.
RECURSIVE ExpNeg(_)
ExpNeg(d) ==
    IF d >= 50 THEN (ExpNeg(d - 50) * 6065) \div ProbScale
    ELSE ProbScale - 100 * d + (d * d) \div 2 - (d * d * d) \div 600
         + (d * d * d * d) \div 240000

\* softmax returning the exponentials without dividing them by their total.
softmaxUnnormalised(values) ==
    IF values = <<>> THEN <<>>
    ELSE LET max_f == SeqMax(values)
         IN  [i \in 1..Len(values) |-> ExpNeg(max_f - values[i])]

\* e / total is rounded to the nearest value the representation has, as a
\* float division is (the unit here is 1/ProbScale, a float's is far smaller).
softmax(values) ==
    IF values = <<>> THEN <<>>
    ELSE LET max_f == SeqMax(values)
             exps  == [i \in 1..Len(values) |-> ExpNeg(max_f - values[i])]
             total == SeqSum(exps)
             n     == Len(values)
         IN  IF total <= 0 THEN [i \in 1..n |-> ProbScale \div n]
             ELSE [i \in 1..n |-> (2 * exps[i] * ProbScale + total) \div (2 * total)]

\* thresholds[i] is the sum of the first i probabilities; the last is set to 1.0.
build_selection_cdf(values) ==
    LET probs == softmax(values)
    IN  [i \in 1..Len(probs) |->
            IF i = Len(probs) THEN ProbScale ELSE SeqSum(SubSeq(probs, 1, i))]

\* The scan of sample_index_from_cdf for the draw r: the first index whose
\* threshold is at least r, else len(thresholds) - 1.
sample_index_from_cdf(thresholds, r) ==
    IF \E i \in 1..Len(thresholds) : r <= thresholds[i]
    THEN (CHOOSE i \in 1..Len(thresholds) :
              r <= thresholds[i] /\ \A j \in 1..(i - 1) : ~(r <= thresholds[j])) - 1
    ELSE Len(thresholds) - 1

\* The loop of crossover from the i-th activity on: one coin per activity.
RECURSIVE CrossoverFrom(_, _, _, _, _)
CrossoverFrom(i, parent1, parent2, child, state) ==
    IF i > Len(ActivityOrder) THEN [value |-> child, rng |-> state]
    ELSE LET s1  == RngNext(state)
             src == IF 2 * RandomValue(s1) < ProbScale THEN parent1 ELSE parent2
             activity == ActivityOrder[i]
         IN  CrossoverFrom(i + 1, parent1, parent2,
                           (activity :> src[activity]) @@ child, s1)

\* crossover whose loop misses the first activity.
crossoverSkippingFirst(parent1, parent2, state) ==
    CrossoverFrom(2, parent1, parent2, <<>>, state)

crossover(parent1, parent2, state) == CrossoverFrom(1, parent1, parent2, <<>>, state)

RateScale == 1024000

\* rng.random() < rate, the draw in 1/ProbScale and the rate in
\* 1/RateScale (both sides divided by 1000).
MutationHit(r, rate) ==
    r * (RateScale \div 1000) < rate * (ProbScale \div 1000)

\* One field of mutate: a draw against the rate and, on a hit, a choice.
MutateField(current, domain, rate, state) ==
    LET s1 == RngNext(state)
    IN  IF MutationHit(RandomValue(s1), rate)
        THEN [value |-> ChoiceValue(domain, RngNext(s1)), rng |-> RngNext(s1)]
        ELSE [value |-> current, rng |-> s1]

\* The loop of mutate from the i-th key of the schedule on.
RECURSIVE MutateFrom(_, _, _, _)
MutateFrom(keys, schedule, rate, state) ==
    IF keys = <<>> THEN [value |-> schedule, rng |-> state]
    ELSE LET activity == Head(keys)
             room == MutateField(schedule[activity].room, RoomOrder,
                                 rate, state)
             time == MutateField(schedule[activity].time, TIMES,
                                 rate, room.rng)
             facilitator == MutateField(schedule[activity].facilitator, FACILITATORS,
                                        rate, time.rng)
         IN  MutateFrom(Tail(keys),
                        [schedule EXCEPT ![activity] =
                            [room |-> room.value, time |-> time.value,
                             facilitator |-> facilitator.value]],
                        rate, facilitator.rng)

\* schedule.items(): the keys in insertion order, which is the catalog's order
\* for every schedule the program builds.
ScheduleKeys(schedule) ==
    SelectSeq(ActivityOrder, LAMBDA activity : activity \in DOMAIN schedule)

mutate(schedule, rate, state) ==
    MutateFrom(ScheduleKeys(schedule), schedule, rate, state)

\* LoopContinues with one iteration too many: range(max_generations + 1).
LoopContinuesOneMore(g, max_gens) == g <= max_gens

\* for gen in range(max_generations): whether there is a next iteration.
LoopContinues(g, max_gens) == g < max_gens

\* improvement_percent, an exact fraction.  abs(prev_avg_fitness) < 1e-9 holds
\* of an average of hundredths exactly when the average is zero.
ImprovementPercent(avg, prev_avg) ==
    IF prev_avg = <<>> \/ prev_avg[1].num = 0
    THEN [num |-> 100, den |-> 1]
    ELSE [num |-> (avg.num * prev_avg[1].den - prev_avg[1].num * avg.den) * 100,
          den |-> avg.den * Abs(prev_avg[1].num)]

\* a < b for fractions with positive denominators.
FracLess(a, b) == a.num * b.den < b.num * a.den

min_mutation_rate == 1024

Max2(a, b) == IF a >= b THEN a ELSE b

\* gen > 0 and gen % mutation_halve_interval == 0; raises when the interval is 0.
CheckPointRaises(g, interval) == g > 0 /\ interval = 0
\* IsCheckPoint without gen > 0: generation 0 is a check point too.
IsCheckPointFromZero(g, interval) == interval # 0 /\ g % interval = 0

IsCheckPoint(g, interval) == g > 0 /\ interval # 0 /\ g % interval = 0

\* AdaptedMutationRate without the floor: current_mutation_rate / 2.
AdaptedMutationRateUnfloored(g, interval, avg, avg_at_last, rate) ==
    IF /\ IsCheckPoint(g, interval)
       /\ avg_at_last # <<>>
       /\ FracLess(avg_at_last[1], avg)
       /\ rate > min_mutation_rate
    THEN rate \div 2
    ELSE rate

\* current_mutation_rate after the adaptive step of generation g.
AdaptedMutationRate(g, interval, avg, avg_at_last, rate) ==
    IF /\ IsCheckPoint(g, interval)
       /\ avg_at_last # <<>>
       /\ FracLess(avg_at_last[1], avg)
       /\ rate > min_mutation_rate
    THEN Max2(rate \div 2, min_mutation_rate)
    ELSE rate

\* Converged without its test of the generation count.
ConvergedIgnoringMinimum(g, min_gens, improvement_percent, threshold) ==
    Abs(improvement_percent.num) < threshold * improvement_percent.den

\* Converged counting the generations from 1: gen >= min_generations.
ConvergedOnePastMinimum(g, min_gens, improvement_percent, threshold) ==
    /\ g >= min_gens
    /\ Abs(improvement_percent.num) < threshold * improvement_percent.den

\* gen + 1 >= min_generations and abs(improvement_percent) < improvement_threshold
Converged(g, min_gens, improvement_percent, threshold) ==
    /\ g + 1 >= min_gens
    /\ Abs(improvement_percent.num) < threshold * improvement_percent.den

\* HistoryAppend putting the record first: history.insert(0, record).
HistoryInsertFirst(records, record) == <<record>> \o records

\* history.append(record)
HistoryAppend(records, record) == Append(records, record)

\* while len(new_population) < population_size
BreedingContinues(new_pop, pop_size) == Len(new_pop) < pop_size

\* BestIndex keeping the last maximum of the scan instead of the first.
RECURSIVE ArgMaxScanLast(_, _, _)
ArgMaxScanLast(values, i, best) ==
    IF i >= Len(values) THEN best
    ELSE ArgMaxScanLast(values, i + 1,
                        IF values[i + 1] >= values[best + 1] THEN i ELSE best)

BestIndexLast(values) == ArgMaxScanLast(values, 1, 0)

\* max(range(len(fitnesses)), key=...): the scan keeps the first maximum.
RECURSIVE ArgMaxScan(_, _, _)
ArgMaxScan(values, i, best) ==
    IF i >= Len(values) THEN best
    ELSE ArgMaxScan(values, i + 1,
                    IF values[i + 1] > values[best + 1] THEN i ELSE best)

BestIndex(values) == ArgMaxScan(values, 1, 0)

\* BreedStep appending the second child whatever the size reached.
BreedStepKeepingBoth(pop, select_cdf, rate, new_pop, pop_size, state) ==
    LET s1      == RngNext(state)
        idx1    == sample_index_from_cdf(select_cdf, RandomValue(s1))
        s2      == RngNext(s1)
        idx2    == sample_index_from_cdf(select_cdf, RandomValue(s2))
        parent1 == pop[idx1 + 1]
        parent2 == pop[idx2 + 1]
        child1  == crossover(parent1, parent2, s2)
        child2  == crossover(parent1, parent2, child1.rng)
        mutated1 == mutate(child1.value, rate, child2.rng)
        mutated2 == mutate(child2.value, rate, mutated1.rng)
        with1   == Append(new_pop, mutated1.value)
    IN  [value |-> Append(with1, mutated2.value),
         rng |-> mutated2.rng]

\* One pass of the breeding loop: two parents, two children, two mutations.
BreedStep(pop, select_cdf, rate, new_pop, pop_size, state) ==
    LET s1      == RngNext(state)
        idx1    == sample_index_from_cdf(select_cdf, RandomValue(s1))
        s2      == RngNext(s1)
        idx2    == sample_index_from_cdf(select_cdf, RandomValue(s2))
        parent1 == pop[idx1 + 1]
        parent2 == pop[idx2 + 1]
        child1  == crossover(parent1, parent2, s2)
        child2  == crossover(parent1, parent2, child1.rng)
        mutated1 == mutate(child1.value, rate, child2.rng)
        mutated2 == mutate(child2.value, rate, mutated1.rng)
        with1   == Append(new_pop, mutated1.value)
    IN  [value |-> IF Len(with1) < pop_size THEN Append(with1, mutated2.value)
                   ELSE with1,
         rng |-> mutated2.rng]

(***************************************************************************)
(* The same operators over objects.  A Schedule is a dict of dicts: each   *)
(* Assignment is an object with an identity, and mutate writes into the    *)
(* objects of the schedule it is given.  A heap is the sequence of the     *)
(* objects made so far, an identity an index into it, and a schedule holds *)
(* the identities of its assignments.                                      *)
(***************************************************************************)
\* The schedule (as a value) that a schedule of identities stands for.
Deref(refs, heap) == [activity \in DOMAIN refs |-> heap[refs[activity]]]

DerefAll(pop, heap) == [i \in 1..Len(pop) |-> Deref(pop[i], heap)]

\* child[activity] = src[activity]: the child holds the parent's own object.
ShareAssignment(id, heap) == [id |-> id, heap |-> heap]

\* dict(src[activity]): a new object with the fields of the one copied.
CopyAssignment(id, heap) == [id |-> Len(heap) + 1, heap |-> Append(heap, heap[id])]

\* The population initialize_population built, every Assignment of it an
\* object of its own (_random_assignment returns a new dict at each call).
RECURSIVE AllocateSchedule(_, _, _, _)
AllocateSchedule(i, schedule, refs, heap) ==
    IF i > Len(ActivityOrder) THEN [value |-> refs, heap |-> heap]
    ELSE AllocateSchedule(i + 1, schedule,
                          (ActivityOrder[i] :> (Len(heap) + 1)) @@ refs,
                          Append(heap, schedule[ActivityOrder[i]]))

RECURSIVE AllocatePopulation(_, _, _)
AllocatePopulation(pop, refs, heap) ==
    IF pop = <<>> THEN [value |-> refs, heap |-> heap]
    ELSE LET first == AllocateSchedule(1, Head(pop), <<>>, heap)
         IN  AllocatePopulation(Tail(pop), Append(refs, first.value), first.heap)

\* crossover, the loop from the i-th activity on.
RECURSIVE CrossoverObjectsFrom(_, _, _, _, _, _)
CrossoverObjectsFrom(i, parent1, parent2, child, heap, state) ==
    IF i > Len(ActivityOrder) THEN [value |-> child, heap |-> heap, rng |-> state]
    ELSE LET s1  == RngNext(state)
             src == IF 2 * RandomValue(s1) < ProbScale THEN parent1 ELSE parent2
             activity == ActivityOrder[i]
             copy == CopyAssignment(src[activity], heap)
         IN  CrossoverObjectsFrom(i + 1, parent1, parent2,
                                  (activity :> copy.id) @@ child, copy.heap, s1)

\* mutate, the loop from the first of keys on: it writes into the objects.
RECURSIVE MutateObjectsFrom(_, _, _, _, _)
MutateObjectsFrom(keys, schedule, rate, heap, state) ==
    IF keys = <<>> THEN [heap |-> heap, rng |-> state]
    ELSE LET id   == schedule[Head(keys)]
             room == MutateField(heap[id].room, RoomOrder, rate, state)
             time == MutateField(heap[id].time, TIMES, rate, room.rng)
             facilitator == MutateField(heap[id].facilitator, FACILITATORS,
                                        rate, time.rng)
         IN  MutateObjectsFrom(Tail(keys), schedule, rate,
                               [heap EXCEPT ![id] =
                                   [room |-> room.value, time |-> time.value,
                                    facilitator |-> facilitator.value]],
                               facilitator.rng)

\* One pass of the breeding loop, over objects.
BreedObjects(pop, select_cdf, rate, new_pop, pop_size, heap, state) ==
    LET s1      == RngNext(state)
        idx1    == sample_index_from_cdf(select_cdf, RandomValue(s1))
        s2      == RngNext(s1)
        idx2    == sample_index_from_cdf(select_cdf, RandomValue(s2))
        parent1 == pop[idx1 + 1]
        parent2 == pop[idx2 + 1]
        child1  == CrossoverObjectsFrom(1, parent1, parent2, <<>>, heap, s2)
        child2  == CrossoverObjectsFrom(1, parent1, parent2, <<>>, child1.heap,
                                        child1.rng)
        mutated1 == MutateObjectsFrom(ActivityOrder, child1.value, rate,
                                      child2.heap, child2.rng)
        mutated2 == MutateObjectsFrom(ActivityOrder, child2.value, rate,
                                      mutated1.heap, mutated1.rng)
        with1   == Append(new_pop, child1.value)
    IN  [value |-> IF Len(with1) < pop_size THEN Append(with1, child2.value)
                   ELSE with1,
         heap |-> mutated2.heap,
         rng |-> mutated2.rng]

(***************************************************************************)
(* run_ga as a state machine.  A run is at "loop" (the head of the         *)
(* generation loop), "breed" (inside the breeding loop), "finish" (after   *)
(* the loop), "done" (returned) or "raised" (ended by an exception).       *)
(***************************************************************************)
RunIds == {1, 2}

MaxPopulation == 2
MaxGenerations == 4
MaxInterval == 2
MaxSeed == 2
MaxEntropy == 1

PopulationSizes == 0..MaxPopulation
GenerationCounts == 0..MaxGenerations
HalveIntervals == 0..MaxInterval
\* improvement_threshold in percent: the default 1.0, and one every first
\* generation meets.
Thresholds == {1, 200}
\* mutation_rate: 0.0, 0.0015 (halved, it falls under the floor), 0.5
MutationRates == {0, 1536, 512000}
Seeds == {<<>>} \cup {<<seed>> : seed \in 1..MaxSeed}
EntropyValues == 0..MaxEntropy

\* The state of run r after lines 216-228 of run_ga.
RunStart(entropy) ==
    LET start == [r \in runs |->
                     initialize_population(population_size,
                                           RandomInit(rng_seed, entropy[r]))]
        On(r, x, off) == IF r \in runs THEN x ELSE off
    IN  /\ rng = [r \in RunIds |-> On(r, start[r].rng, 0)]
        /\ population = [r \in RunIds |-> On(r, start[r].value, <<>>)]
        /\ fitnesses = [r \in RunIds |-> On(r, FitnessValues(start[r].value), <<>>)]
        /\ history = [r \in RunIds |-> <<>>]
        /\ prev_avg_fitness = [r \in RunIds |-> <<>>]
        /\ current_mutation_rate = [r \in RunIds |-> On(r, mutation_rate, 0)]
        /\ avg_at_last_mutation_check = [r \in RunIds |-> <<>>]
        /\ gen = [r \in RunIds |-> 0]
        /\ avg_f = [r \in RunIds |-> <<>>]
        /\ cdf = [r \in RunIds |-> <<>>]
        /\ new_population = [r \in RunIds |-> <<>>]
        /\ best_index = [r \in RunIds |-> <<>>]
        /\ best_schedule = [r \in RunIds |-> <<>>]
        /\ best_fitness = [r \in RunIds |-> <<>>]
        /\ raised = [r \in RunIds |-> "none"]
        /\ pc = [r \in RunIds |-> On(r, "loop", "off")]

\* No evaluation of a hand-made schedule is under way.
FitIdle ==
    /\ f_schedule = <<>>
    /\ f_result = <<>>
    /\ f_pc = "off"

\* The Selector is not being tried on a hand-made vector.
SelIdle ==
    /\ s_fitnesses = <<>>
    /\ s_probs = <<>>
    /\ s_cdf = <<>>
    /\ s_r = 0
    /\ s_result = <<>>
    /\ s_pc = "off"

\* No breeding over objects is under way.
HeapIdle ==
    /\ h_heap = <<>>
    /\ h_population = <<>>
    /\ h_new_population = <<>>
    /\ h_rng = 0
    /\ h_gen = 0
    /\ h_pc = "off"

\* No run of run_ga is under way; the parameters are the defaults.
GaIdle ==
    /\ runs = {}
    /\ population_size = 300
    /\ mutation_rate = 10240
    /\ min_generations = 100
    /\ max_generations = 500
    /\ rng_seed = <<42>>
    /\ improvement_threshold = 1
    /\ mutation_halve_interval = 10
    /\ RunStart([r \in RunIds |-> 0])

GaInit(active) ==
    /\ runs = active
    /\ population_size \in PopulationSizes
    /\ mutation_rate \in MutationRates
    /\ min_generations \in GenerationCounts
    /\ max_generations \in GenerationCounts
    /\ rng_seed \in Seeds
    /\ improvement_threshold \in Thresholds
    /\ mutation_halve_interval \in HalveIntervals
    /\ \E entropy \in {e \in [RunIds -> EntropyValues] :
                          \A r \in RunIds \ active : e[r] = 0} : RunStart(entropy)
    /\ FitIdle
    /\ SelIdle
    /\ HeapIdle

Raise(r, exception) ==
    /\ raised' = [raised EXCEPT ![r] = exception]
    /\ pc' = [pc EXCEPT ![r] = "raised"]

\* One iteration of the generation loop, up to the break or to the CDF.
Generation(r) ==
    /\ pc[r] = "loop"
    /\ LoopContinues(gen[r], max_generations)
    /\ IF fitnesses[r] = <<>>
       THEN \* max(fitnesses) of an empty list
            /\ Raise(r, "ValueError")
            /\ UNCHANGED <<history, avg_f, current_mutation_rate,
                           avg_at_last_mutation_check, cdf, new_population>>
       ELSE LET avg == [num |-> SeqSum(fitnesses[r]), den |-> Len(fitnesses[r])]
                improvement_percent == ImprovementPercent(avg, prev_avg_fitness[r])
                record == [generation |-> gen[r],
                           best_fitness |-> SeqMax(fitnesses[r]),
                           avg_fitness |-> avg,
                           worst_fitness |-> SeqMin(fitnesses[r]),
                           improvement_percent |-> improvement_percent,
                           mutation_rate |-> current_mutation_rate[r]]
            IN  /\ history' = [history EXCEPT ![r] = HistoryAppend(@, record)]
                /\ avg_f' = [avg_f EXCEPT ![r] = <<avg>>]
                /\ IF CheckPointRaises(gen[r], mutation_halve_interval)
                   THEN /\ Raise(r, "ZeroDivisionError")
                        /\ UNCHANGED <<current_mutation_rate,
                                       avg_at_last_mutation_check, cdf, new_population>>
                   ELSE /\ current_mutation_rate' =
                              [current_mutation_rate EXCEPT ![r] =
                                  AdaptedMutationRate(gen[r], mutation_halve_interval,
                                      avg, avg_at_last_mutation_check[r], @)]
                        /\ avg_at_last_mutation_check' =
                              [avg_at_last_mutation_check EXCEPT ![r] =
                                  IF IsCheckPoint(gen[r], mutation_halve_interval)
                                  THEN <<avg>> ELSE @]
                        /\ UNCHANGED raised
                        /\ IF Converged(gen[r], min_generations, improvement_percent,
                                        improvement_threshold)
                           THEN /\ pc' = [pc EXCEPT ![r] = "finish"]
                                /\ UNCHANGED <<cdf, new_population>>
                           ELSE /\ cdf' = [cdf EXCEPT ![r] =
                                              build_selection_cdf(fitnesses[r])]
                                /\ new_population' = [new_population EXCEPT ![r] = <<>>]
                                /\ pc' = [pc EXCEPT ![r] = "breed"]
    /\ UNCHANGED <<fitVars, selVars, heapVars, paramVars>>
    /\ UNCHANGED <<runs, rng, population, fitnesses, prev_avg_fitness, gen,
                   best_index, best_schedule, best_fitness>>

\* range(max_generations) is exhausted: the loop ends without a break.
LoopExhausted(r) ==
    /\ pc[r] = "loop"
    /\ ~LoopContinues(gen[r], max_generations)
    /\ pc' = [pc EXCEPT ![r] = "finish"]
    /\ UNCHANGED <<fitVars, selVars, heapVars, paramVars>>
    /\ UNCHANGED <<runs, rng, population, fitnesses, history, prev_avg_fitness,
                   current_mutation_rate, avg_at_last_mutation_check, gen, avg_f,
                   cdf, new_population, best_index, best_schedule, best_fitness,
                   raised>>

\* One iteration of the breeding loop.
BreedPair(r) ==
    /\ pc[r] = "breed"
    /\ BreedingContinues(new_population[r], population_size)
    /\ LET bred == BreedStep(population[r], cdf[r], current_mutation_rate[r],
                             new_population[r], population_size, rng[r])
       IN  /\ new_population' = [new_population EXCEPT ![r] = bred.value]
           /\ rng' = [rng EXCEPT ![r] = bred.rng]
    /\ UNCHANGED <<fitVars, selVars, heapVars, paramVars>>
    /\ UNCHANGED <<runs, population, fitnesses, history, prev_avg_fitness,
                   current_mutation_rate, avg_at_last_mutation_check, gen, avg_f,
                   cdf, best_index, best_schedule, best_fitness, raised, pc>>

\* The breeding loop is over: the new population replaces the old one and is
\* evaluated, and the loop moves to the next generation.
NextGeneration(r) ==
    /\ pc[r] = "breed"
    /\ ~BreedingContinues(new_population[r], population_size)
    /\ population' = [population EXCEPT ![r] = new_population[r]]
    /\ IF EvaluationRaises(new_population[r])
       THEN /\ Raise(r, "KeyError")
            /\ UNCHANGED <<fitnesses, prev_avg_fitness, gen>>
       ELSE /\ fitnesses' = [fitnesses EXCEPT ![r] = FitnessValues(new_population[r])]
            /\ prev_avg_fitness' = [prev_avg_fitness EXCEPT ![r] = avg_f[r]]
            /\ gen' = [gen EXCEPT ![r] = @ + 1]
            /\ pc' = [pc EXCEPT ![r] = "loop"]
            /\ UNCHANGED raised
    /\ UNCHANGED <<fitVars, selVars, heapVars, paramVars>>
    /\ UNCHANGED <<runs, rng, history, current_mutation_rate,
                   avg_at_last_mutation_check, avg_f, cdf, new_population,
                   best_index, best_schedule, best_fitness>>

\* After the loop: the best schedule of the final population, and the return.
Finish(r) ==
    /\ pc[r] = "finish"
    /\ IF fitnesses[r] = <<>>
       THEN \* max() of an empty range
            /\ Raise(r, "ValueError")
            /\ UNCHANGED <<best_index, best_schedule, best_fitness>>
       ELSE LET best == BestIndex(fitnesses[r])
            IN  /\ best_index' = [best_index EXCEPT ![r] = <<best>>]
                /\ best_schedule' = [best_schedule EXCEPT ![r] =
                                        <<population[r][best + 1]>>]
                /\ best_fitness' = [best_fitness EXCEPT ![r] =
                                       <<fitnesses[r][best + 1]>>]
                /\ pc' = [pc EXCEPT ![r] = "done"]
                /\ UNCHANGED raised
    /\ UNCHANGED <<fitVars, selVars, heapVars, paramVars>>
    /\ UNCHANGED <<runs, rng, population, fitnesses, history, prev_avg_fitness,
                   current_mutation_rate, avg_at_last_mutation_check, gen, avg_f,
                   cdf, new_population>>

Next ==
    \/ \E r \in runs : Generation(r)
    \/ \E r \in runs : LoopExhausted(r)
    \/ \E r \in runs : BreedPair(r)
    \/ \E r \in runs : NextGeneration(r)
    \/ \E r \in runs : Finish(r)

\* One call of run_ga.
Init == GaInit({1})

Spec == Init /\ [][Next]_vars

(***************************************************************************)
(* Specification PairSpec: two calls of run_ga with the same parameters    *)
(* and the same rng_seed, each with its own generator, their steps         *)
(* interleaved.                                                            *)
(***************************************************************************)
PairInit ==
    /\ population_size = MaxPopulation
    /\ min_generations \in {1, MaxGenerations}
    /\ max_generations = MaxGenerations - 1
    /\ mutation_halve_interval = 1
    /\ GaInit({1, 2})

PairSpec == PairInit /\ [][Next]_vars

(***************************************************************************)
(* Specification SelectorSpec: build_selection_cdf and                     *)
(* sample_index_from_cdf on bounded fitness vectors and draws              *)
(***************************************************************************)
MaxVector == 4

\* Fitness values (hundredths) and draws (1/ProbScale) to try.
FitnessSamples == {-1200, -25, 0, 5, 150}
DrawSamples == {0, 1, 2500, 5000, 9999}

VectorsUpTo(n) == UNION {[1..k -> FitnessSamples] : k \in 0..n}

SelInit ==
    /\ s_fitnesses \in VectorsUpTo(MaxVector)
    /\ s_probs = <<>>
    /\ s_cdf = <<>>
    /\ s_r = 0
    /\ s_result = <<>>
    /\ s_pc = "input"
    /\ FitIdle
    /\ GaIdle
    /\ HeapIdle

\* cdf = build_selection_cdf(fitnesses)
BuildCdf ==
    /\ s_pc = "input"
    /\ s_probs' = softmax(s_fitnesses)
    /\ s_cdf' = build_selection_cdf(s_fitnesses)
    /\ s_pc' = "built"
    /\ UNCHANGED <<s_fitnesses, s_r, s_result, fitVars, paramVars, runVars, heapVars>>

\* sample_index_from_cdf(cdf, rng), the generator's draw being r.  The function
\* has no raise: whatever the CDF, it returns an index.
Sample(r) ==
    /\ s_pc = "built"
    /\ s_r' = r
    /\ s_result' = [error |-> "none", index |-> sample_index_from_cdf(s_cdf, r),
                     fallback |-> ~(\E i \in 1..Len(s_cdf) : r <= s_cdf[i])]
    /\ s_pc' = "sampled"
    /\ UNCHANGED <<s_fitnesses, s_probs, s_cdf, fitVars, paramVars, runVars, heapVars>>

SelNext ==
    \/ BuildCdf
    \/ \E r \in DrawSamples : Sample(r)

SelectorSpec == SelInit /\ [][SelNext]_vars

(***************************************************************************)
(* Specification FitnessSpec: compute_schedule_fitness on bounded inputs   *)
(***************************************************************************)
sample_schedule ==
    "SLA101A" :> [room |-> "Frank 119",  time |-> "10 AM", facilitator |-> "Glen"] @@
    "SLA101B" :> [room |-> "Roman 201",  time |-> "11 AM", facilitator |-> "Banks"] @@
    "SLA191A" :> [room |-> "Beach 301",  time |-> "10 AM", facilitator |-> "Lock"] @@
    "SLA191B" :> [room |-> "Slater 003", time |-> "2 PM",  facilitator |-> "Singer"] @@
    "SLA201"  :> [room |-> "Loft 206",   time |-> "3 PM",  facilitator |-> "Tyler"] @@
    "SLA291"  :> [room |-> "James 325",  time |-> "1 PM",  facilitator |-> "Zeldin"] @@
    "SLA303"  :> [room |-> "Beach 201",  time |-> "12 PM", facilitator |-> "Glen"] @@
    "SLA304"  :> [room |-> "Loft 310",   time |-> "11 AM", facilitator |-> "Uther"] @@
    "SLA394"  :> [room |-> "Roman 216",  time |-> "2 PM",  facilitator |-> "Tyler"] @@
    "SLA449"  :> [room |-> "Frank 119",  time |-> "1 PM",  facilitator |-> "Singer"] @@
    "SLA451"  :> [room |-> "James 325",  time |-> "10 AM", facilitator |-> "Banks"]

\* A schedule that gives assignment first to the first k activities (in catalog
\* order) and assignment rest to the others.
SplitSchedule(k, first, rest) ==
    [activity \in Range(ActivityOrder) |->
        IF \E i \in 1..k : ActivityOrder[i] = activity THEN first ELSE rest]

RestAssignment == [room |-> "James 325", time |-> "10 AM", facilitator |-> "Lock"]

StartSchedules ==
    {sample_schedule} \cup
    {SplitSchedule(k, [room |-> r, time |-> t, facilitator |-> f], RestAssignment) :
        k \in 0..Len(ActivityOrder), r \in {"Frank 119", "Beach 201"},
        t \in Range(TIMES), f \in {"Tyler", "Glen"}}

\* Values outside the catalog, for schedules that break the structural invariant.
UnknownRoom == "Annex 9"
UnknownTime == "4 PM"
UnknownActivity == "SLA999"
NotEvaluated ==
    [error |-> "pending", value |-> 0, conflict |-> 0, load |-> 0,
     load_by_facilitator |-> <<>>, pair |-> 0,
     size_by_activity |-> <<>>, pair_101 |-> 0, pair_191 |-> 0]

FitInit ==
    /\ f_schedule \in StartSchedules
    /\ f_result = NotEvaluated
    /\ f_pc = "input"
    /\ SelIdle
    /\ GaIdle
    /\ HeapIdle

\* The caller changes one field of one activity before the evaluation.
SetRoom(activity, room) ==
    /\ f_pc = "input"
    /\ f_schedule' = [f_schedule EXCEPT ![activity].room = room]
    /\ f_pc' = "edited"
    /\ UNCHANGED <<f_result, selVars, paramVars, runVars, heapVars>>

SetTime(activity, time) ==
    /\ f_pc = "input"
    /\ f_schedule' = [f_schedule EXCEPT ![activity].time = time]
    /\ f_pc' = "edited"
    /\ UNCHANGED <<f_result, selVars, paramVars, runVars, heapVars>>

SetFacilitator(activity, facilitator) ==
    /\ f_pc = "input"
    /\ f_schedule' = [f_schedule EXCEPT ![activity].facilitator = facilitator]
    /\ f_pc' = "edited"
    /\ UNCHANGED <<f_result, selVars, paramVars, runVars, heapVars>>

\* del schedule[activity]
RemoveActivity(activity) ==
    /\ f_pc = "input"
    /\ f_schedule' = [a \in (DOMAIN f_schedule) \ {activity} |-> f_schedule[a]]
    /\ f_pc' = "edited"
    /\ UNCHANGED <<f_result, selVars, paramVars, runVars, heapVars>>

\* schedule[UnknownActivity] = assignment
AddActivity(assignment) ==
    /\ f_pc = "input"
    /\ f_schedule' = (UnknownActivity :> assignment) @@ f_schedule
    /\ f_pc' = "edited"
    /\ UNCHANGED <<f_result, selVars, paramVars, runVars, heapVars>>

\* compute_schedule_fitness(schedule)
Evaluate ==
    /\ f_pc \in {"input", "edited"}
    /\ f_result' = FitnessBreakdown(f_schedule)
    /\ f_pc' = "evaluated"
    /\ UNCHANGED <<f_schedule, selVars, paramVars, runVars, heapVars>>

FitNext ==
    \/ \E activity \in Range(ActivityOrder), room \in DOMAIN ROOMS \cup {UnknownRoom} :
          SetRoom(activity, room)
    \/ \E activity \in Range(ActivityOrder), time \in {"12 PM", UnknownTime} :
          SetTime(activity, time)
    \/ \E activity \in Range(ActivityOrder), facilitator \in {"Tyler", "Nobody"} :
          SetFacilitator(activity, facilitator)
    \/ \E activity \in Range(ActivityOrder) : RemoveActivity(activity)
    \/ AddActivity(RestAssignment)
    \/ Evaluate

FitnessSpec == FitInit /\ [][FitNext]_vars
(***************************************************************************)
(* Specification HeapSpec: the breeding of run_ga (initialization, then    *)
(* for each generation the breeding loop and the hand-over of the new      *)
(* population) with every Assignment an object.                            *)
(***************************************************************************)
HeapInit ==
    /\ runs = {}
    /\ population_size \in 1..MaxPopulation
    /\ mutation_rate \in MutationRates
    /\ rng_seed \in Seeds
    /\ min_generations = 100
    /\ max_generations = 500
    /\ improvement_threshold = 1
    /\ mutation_halve_interval = 10
    /\ RunStart([r \in RunIds |-> 0])
    /\ \E entropy \in EntropyValues :
          LET start == initialize_population(population_size,
                                             RandomInit(rng_seed, entropy))
              made  == AllocatePopulation(start.value, <<>>, <<>>)
          IN  /\ h_heap = made.heap
              /\ h_population = made.value
              /\ h_rng = start.rng
    /\ h_new_population = <<>>
    /\ h_gen = 0
    /\ h_pc = "breed"
    /\ FitIdle
    /\ SelIdle

\* One iteration of the breeding loop.
HeapBreedPair ==
    /\ h_pc = "breed"
    /\ h_gen < MaxGenerations
    /\ BreedingContinues(h_new_population, population_size)
    /\ LET select_cdf ==
               build_selection_cdf(FitnessValues(DerefAll(h_population, h_heap)))
           bred == BreedObjects(h_population, select_cdf, mutation_rate,
                                h_new_population, population_size, h_heap, h_rng)
       IN  /\ h_new_population' = bred.value
           /\ h_heap' = bred.heap
           /\ h_rng' = bred.rng
    /\ UNCHANGED <<h_population, h_gen, h_pc>>
    /\ UNCHANGED <<fitVars, selVars, paramVars, runVars>>

\* population = new_population, and new_population = [] of the next generation.
HeapNextGeneration ==
    /\ h_pc = "breed"
    /\ h_gen < MaxGenerations
    /\ ~BreedingContinues(h_new_population, population_size)
    /\ h_population' = h_new_population
    /\ h_new_population' = <<>>
    /\ h_gen' = h_gen + 1
    /\ UNCHANGED <<h_heap, h_rng, h_pc>>
    /\ UNCHANGED <<fitVars, selVars, paramVars, runVars>>

HeapNext ==
    \/ HeapBreedPair
    \/ HeapNextGeneration

HeapSpec == HeapInit /\ [][HeapNext]_vars
(***************************************************************************)
(* Properties of run_ga                                                    *)
(***************************************************************************)
Min2(a, b) == IF a <= b THEN a ELSE b

Returned(r) == r \in runs /\ pc[r] = "done"

Ended(r) == pc[r] \in {"done", "raised"}

StepsLeft(r) ==
    CASE pc[r] = "loop" ->
            (max_generations - gen[r]) * (population_size + 2) + 2
      [] pc[r] = "breed" ->
            (max_generations - gen[r] - 1) * (population_size + 2)
            + (population_size - Len(new_population[r])) + 3
      [] pc[r] = "finish" -> 1
      [] OTHER -> 0

\* C2: with population_size >= 1 run_ga terminates: the history never holds
\* more than max_generations records, the new population of a breeding loop
\* never grows past population_size, and every step of a run (an iteration of
\* the generation loop, a pass of the breeding loop, the hand-over to the next
\* generation, the return) strictly lowers a bound on the steps left that is
\* never negative and is zero only once the run has ended.
C2_Terminates ==
    /\ [](\A r \in runs :
            population_size >= 1 =>
                /\ Len(history[r]) <= max_generations
                /\ Len(new_population[r]) <= population_size
                /\ StepsLeft(r) >= 0
                /\ (StepsLeft(r) = 0 <=> Ended(r)))
    /\ [][\A r \in runs :
            (population_size >= 1 /\ <<rng[r], pc[r], history[r]>>' # <<rng[r], pc[r], history[r]>>)
                => StepsLeft(r)' < StepsLeft(r)]_vars

\* A run that returned after max_generations generations, each followed by a
\* breeding loop that filled the new population.
C2_Witness ==
    /\ Returned(1)
    /\ population_size >= 2
    /\ max_generations >= 2
    /\ Len(history[1]) = max_generations
    /\ Len(new_population[1]) = population_size

FirstIndexOfMax(values) ==
    CHOOSE i \in 0..(Len(values) - 1) :
        /\ values[i + 1] = SeqMax(values)
        /\ \A j \in 0..(i - 1) : values[j + 1] # SeqMax(values)

\* C3: on every return, best_fitness is the maximum of the final fitness vector
\* and best_schedule is the schedule at the lowest index that has it.
C3_ReturnsFirstBest ==
    \A r \in RunIds :
        Returned(r) =>
            /\ best_fitness[r] = <<SeqMax(fitnesses[r])>>
            /\ best_index[r] = <<FirstIndexOfMax(fitnesses[r])>>
            /\ best_schedule[r] = <<population[r][FirstIndexOfMax(fitnesses[r]) + 1]>>

\* A return from a final population in which the maximum occurs twice.
C3_Witness ==
    \E r \in runs :
        /\ pc[r] = "done"
        /\ \E i, j \in 1..Len(fitnesses[r]) :
              /\ i < j
              /\ fitnesses[r][i] = SeqMax(fitnesses[r])
              /\ fitnesses[r][j] = SeqMax(fitnesses[r])

SameResult ==
    /\ best_schedule[1] = best_schedule[2]
    /\ best_fitness[1] = best_fitness[2]
    /\ history[1] = history[2]

\* C4 (as stated): two runs with the same parameters and the same rng_seed
\* return the same best_schedule, best_fitness and history.
C4_SameSeedSameResult == (Returned(1) /\ Returned(2)) => SameResult

\* C4 (amended): two runs with the same parameters and the same integer
\* rng_seed (not None) return the same best_schedule, best_fitness and history.
C4_SameIntegerSeedSameResult ==
    (rng_seed # <<>> /\ Returned(1) /\ Returned(2)) => SameResult

\* Two seeded runs that both returned after at least one breeding.
C4_Witness ==
    /\ rng_seed # <<>>
    /\ Returned(1) /\ Returned(2)
    /\ gen[1] >= 1 /\ gen[2] >= 1
    /\ mutation_rate > 0

\* C5: every schedule of every population run_ga holds (the initial one, the
\* one being bred from crossover and mutate, each later one) has exactly the
\* known activities as keys, each in a known room at a known time.
C5_StructuralInvariant ==
    \A r \in runs :
        /\ \A i \in 1..Len(population[r]) : validate_schedule_structure(population[r][i])
        /\ \A i \in 1..Len(new_population[r]) :
              validate_schedule_structure(new_population[r][i])

\* A child in the population being bred that mutate has changed: one of its
\* assignments is in no schedule of the current population.
C5_Witness ==
    \E r \in runs :
        /\ pc[r] = "breed"
        /\ Len(population[r]) >= 2
        /\ \E i \in 1..Len(new_population[r]), activity \in DOMAIN ACTIVITIES :
              \A k \in 1..Len(population[r]) :
                  new_population[r][i][activity] # population[r][k][activity]

(***************************************************************************)
(* Properties of compute_schedule_fitness                                  *)
(***************************************************************************)
Scored == f_pc = "evaluated" /\ f_result.error = "none"

\* C6: compute_schedule_fitness returns no score for a schedule that breaks the
\* structural invariant: it raises KeyError.
C6_MalformedScheduleRaisesKeyError ==
    (f_pc = "evaluated" /\ ~validate_schedule_structure(f_schedule)) =>
        f_result.error = "KeyError"

(***************************************************************************)
(* Properties of the Selector                                              *)
(***************************************************************************)
\* C7: building the CDF of an empty fitness vector and sampling from it raises
\* an error instead of returning an index.
C7_EmptyVectorFailsFast ==
    (s_pc = "sampled" /\ s_fitnesses = <<>>) => s_result.error # "none"

(***************************************************************************)
(* Properties of compute_schedule_fitness, continued                       *)
(***************************************************************************)
\* The number of activities of the evaluated schedule a facilitator has.
AssignedTo(facilitator) ==
    Cardinality({a \in DOMAIN f_schedule : f_schedule[a].facilitator = facilitator})

\* The adjustment C8 states for a facilitator with n activities.
C8_Adjustment(facilitator, n) ==
    IF n > 4 THEN -50
    ELSE IF facilitator # "Tyler" /\ n \in {1, 2} THEN -40
    ELSE IF facilitator = "Tyler" /\ n = 2 THEN -40
    ELSE 0

\* C8: the aggregate-load rule adds, once for every roster facilitator (also
\* one with no activity), -0.5 for more than 4 activities, -0.4 for 1 or 2
\* (for Tyler: for exactly 2 only) and nothing for 0, 3 or 4.
C8_LoadAdjustmentByCount ==
    Scored =>
        /\ \A facilitator \in Range(FACILITATORS) :
              f_result.load_by_facilitator[facilitator] =
                  C8_Adjustment(facilitator, AssignedTo(facilitator))
        /\ f_result.load =
              SumOverSeq(FACILITATORS,
                  [facilitator \in Range(FACILITATORS) |->
                      C8_Adjustment(facilitator, AssignedTo(facilitator))])

\* A scored schedule in which Tyler has one activity, another facilitator more
\* than four and a third none.
C8_Witness ==
    /\ Scored
    /\ AssignedTo("Tyler") = 1
    /\ f_result.load_by_facilitator["Tyler"] = 0
    /\ \E facilitator \in Range(FACILITATORS) : AssignedTo(facilitator) > 4
    /\ \E facilitator \in Range(FACILITATORS) : AssignedTo(facilitator) = 0

\* C9 (as stated): no load penalty at 0 or 3 activities, -0.4 at 2 unless the
\* facilitator is Tyler, and for Tyler no penalty at 2 and none at 1.
C9_TylerUnpenalizedAtTwo ==
    Scored =>
        \A facilitator \in Range(FACILITATORS) :
            LET n == AssignedTo(facilitator)
                adjustment == f_result.load_by_facilitator[facilitator]
            IN  /\ n \in {0, 3} => adjustment = 0
                /\ (n = 2 /\ facilitator # "Tyler") => adjustment = -40
                /\ (n \in {1, 2} /\ facilitator = "Tyler") => adjustment = 0

\* C9 (amended): no load penalty at 0 or 3 activities, -0.4 at 2 for every
\* facilitator, Tyler included, and for Tyler no penalty at 1.
C9_TylerPenalizedAtTwoOnly ==
    Scored =>
        \A facilitator \in Range(FACILITATORS) :
            LET n == AssignedTo(facilitator)
                adjustment == f_result.load_by_facilitator[facilitator]
            IN  /\ n \in {0, 3} => adjustment = 0
                /\ n = 2 => adjustment = -40
                /\ (n = 1 /\ facilitator = "Tyler") => adjustment = 0

\* A scored schedule in which Tyler has exactly two activities.
C9_Witness ==
    /\ Scored
    /\ AssignedTo("Tyler") = 2
    /\ f_result.load_by_facilitator["Tyler"] = -40

\* The activities of the evaluated schedule in the room and slot of activity.
SharingWith(activity) ==
    {b \in DOMAIN f_schedule :
        /\ f_schedule[b].room = f_schedule[activity].room
        /\ f_schedule[b].time = f_schedule[activity].time}

\* C10: the room-conflict rule adds -0.5 for each activity that shares its
\* (room, time) with another one and nothing for an activity alone in it, so k
\* activities in one (room, time) add -0.5 * k.
C10_RoomConflictPerActivity ==
    Scored =>
        f_result.conflict =
            -50 * Cardinality({a \in DOMAIN f_schedule :
                                  Cardinality(SharingWith(a)) >= 2})

\* A scored schedule with three or more activities in one (room, time) and an
\* activity alone in another.
C10_Witness ==
    /\ Scored
    /\ \E a \in DOMAIN f_schedule : Cardinality(SharingWith(a)) >= 3
    /\ \E a \in DOMAIN f_schedule : Cardinality(SharingWith(a)) = 1
    /\ f_result.conflict < 0

\* The room-size value C11 states for a capacity and an enrollment, the ratios
\* taken in tenths.
C11_SizeValue(capacity, enrollment) ==
    CASE capacity < enrollment -> -50
      [] capacity >= enrollment /\ 10 * capacity > 30 * enrollment -> -40
      [] capacity >= enrollment /\ 10 * capacity <= 30 * enrollment
            /\ 10 * capacity > 15 * enrollment -> -20
      [] OTHER -> 30

\* C11: the room-size rule adds to each activity exactly one of -0.5, -0.4,
\* -0.2 and +0.3, by precedence: too small, more than 3 times the enrollment,
\* more than 1.5 times, otherwise; a room more than 3 times the enrollment gets
\* -0.4 only.
C11_RoomSizeExclusive ==
    Scored =>
        \A activity \in DOMAIN f_schedule :
            LET capacity   == ROOMS[f_schedule[activity].room].capacity
                enrollment == ACTIVITIES[activity].enrollment
                added      == f_result.size_by_activity[activity]
            IN  /\ added \in {-50, -40, -20, 30}
                /\ added = C11_SizeValue(capacity, enrollment)
                /\ capacity > 3 * enrollment => added = -40

\* A scored schedule with a room more than 3 times the enrollment, one between
\* 1.5 and 3 times, one too small and one of a reasonable size.
C11_Witness ==
    /\ Scored
    /\ \A value \in {-50, -40, -20, 30} :
          \E activity \in DOMAIN f_schedule :
              f_result.size_by_activity[activity] = value

\* The time-slot distance of two activities of the evaluated schedule.
SlotDistance(a, b) ==
    Abs(TIME_INDEX[f_schedule[a].time] - TIME_INDEX[f_schedule[b].time])

\* The value C12 states for a sibling pair at the given distance.
C12_PairValue(distance) ==
    IF distance = 0 THEN -50 ELSE IF distance > 4 THEN 50 ELSE 0

\* C12: the pair-distance rule adds, for SLA101A/SLA101B and for
\* SLA191A/SLA191B, -0.5 in the same slot, +0.5 more than 4 slots apart and 0
\* otherwise; the two values differ by exactly 1.0.
C12_PairDistance ==
    Scored =>
        /\ f_result.pair_101 = C12_PairValue(SlotDistance("SLA101A", "SLA101B"))
        /\ f_result.pair_191 = C12_PairValue(SlotDistance("SLA191A", "SLA191B"))
        /\ f_result.pair = f_result.pair_101 + f_result.pair_191
        /\ C12_PairValue(5) - C12_PairValue(0) = 100

\* A scored schedule with the SLA101 sections 5 slots apart and the SLA191
\* sections in the same slot.
C12_Witness ==
    /\ Scored
    /\ SlotDistance("SLA101A", "SLA101B") > 4
    /\ f_result.pair_101 = 50
    /\ SlotDistance("SLA191A", "SLA191B") = 0
    /\ f_result.pair_191 = -50

(***************************************************************************)
(* Properties of the Selector, continued                                   *)
(***************************************************************************)
\* The probabilities softmax returned for a non-empty fitness vector.
Weighed == s_pc \in {"built", "sampled"} /\ s_fitnesses # <<>>

\* One probability per individual, none negative, and a higher fitness never
\* with a lower probability.
C13_Shape ==
    /\ Len(s_probs) = Len(s_fitnesses)
    /\ \A i \in 1..Len(s_probs) : s_probs[i] >= 0
    /\ \A i, j \in 1..Len(s_probs) :
          s_fitnesses[i] >= s_fitnesses[j] => s_probs[i] >= s_probs[j]

\* C13 (as stated): for a non-empty fitness vector softmax returns one
\* non-negative probability per individual, the probabilities sum to 1.0, and
\* an individual of maximum fitness has a probability at least that of every
\* other.
C13_SoftmaxSumsToOne ==
    Weighed => (C13_Shape /\ SeqSum(s_probs) = ProbScale)

\* C13 (amended): as stated, but the probabilities sum to 1.0 within the
\* rounding of the divisions: at most half a unit of the representation for
\* each probability.
C13_SoftmaxSumsToOneWithinRounding ==
    Weighed => (C13_Shape /\ 2 * Abs(SeqSum(s_probs) - ProbScale) <= Len(s_probs))

\* Probabilities of three different fitness values, one of them so far below
\* the maximum that its probability is zero, whose sum is not exactly 1.0.
C13_Witness ==
    /\ Weighed
    /\ Cardinality(Range(s_fitnesses)) >= 3
    /\ \E i \in 1..Len(s_probs) : s_probs[i] = 0
    /\ \E i \in 1..Len(s_probs) : s_probs[i] > ProbScale \div 2
    /\ SeqSum(s_probs) # ProbScale

\* A draw has been taken against the CDF of a non-empty fitness vector.
Drawn == s_pc = "sampled" /\ s_fitnesses # <<>>

\* C20: the CDF build_selection_cdf builds from a non-empty vector is
\* non-decreasing with 1.0 as its last entry, and for every draw r of [0, 1)
\* sample_index_from_cdf returns the first index i of 0..n-1 with
\* cdf[i] >= r, never by its end-of-scan fallback.
C20_FirstIndexOfNonDecreasingCdf ==
    Drawn =>
        LET n == Len(s_cdf)
            i == s_result.index
        IN  /\ n = Len(s_fitnesses)
            /\ \A k \in 1..(n - 1) : s_cdf[k] <= s_cdf[k + 1]
            /\ s_cdf[n] = ProbScale
            /\ i \in 0..(n - 1)
            /\ s_cdf[i + 1] >= s_r
            /\ \A j \in 0..(i - 1) : s_cdf[j + 1] < s_r
            /\ ~s_result.fallback

(***************************************************************************)
(* Properties of run_ga, continued                                         *)
(***************************************************************************)
\* The last GenerationRecord of run r.
LastRecord(r) == history[r][Len(history[r])]

\* C14: on every return with a non-empty history no population was bred after
\* the last GenerationRecord: the final population is the one whose statistics
\* are in that record, and best_fitness is the record's best_fitness.
C14_FinalPopulationIsLastRecorded ==
    \A r \in RunIds :
        (Returned(r) /\ history[r] # <<>>) =>
            /\ gen[r] = LastRecord(r).generation
            /\ LastRecord(r).best_fitness = SeqMax(fitnesses[r])
            /\ LastRecord(r).worst_fitness = SeqMin(fitnesses[r])
            /\ LastRecord(r).avg_fitness.num = SeqSum(fitnesses[r])
            /\ best_fitness[r] = <<LastRecord(r).best_fitness>>

\* |improvement_percent| < improvement_threshold, of a GenerationRecord.
BelowThreshold(record) ==
    Abs(record.improvement_percent.num)
        < improvement_threshold * record.improvement_percent.den

\* The convergence test as C15 states it, of the record of generation g.
C15_Test(record) ==
    record.generation + 1 >= min_generations /\ BelowThreshold(record)

\* improvement_percent as C15 states it, of the k-th record of run r: 100.0 at
\* the first generation and when the previous average is zero, else the change
\* of the average in percent of the previous average's magnitude.
C15_ImprovementStated(r, k) ==
    LET now == history[r][k].avg_fitness
        got == history[r][k].improvement_percent
    IN  IF k = 1 \/ history[r][k - 1].avg_fitness.num = 0
        THEN got.num = 100 * got.den
        ELSE LET prev == history[r][k - 1].avg_fitness
             IN  got.num * (now.den * Abs(prev.num))
                     = 100 * (now.num * prev.den - prev.num * now.den) * got.den

\* C15: a run stops by convergence at generation g exactly when
\* g + 1 >= min_generations and |improvement_percent of g| is below
\* improvement_threshold.  Every generation the run went on from failed the
\* test; a run whose loop ended has stayed at the generation of its last
\* record, with the population of that record and nothing bred after it,
\* exactly when that record passes the test.
C15_StopsExactlyOnConvergence ==
    \A r \in runs :
        LET n == Len(history[r])
        IN  /\ \A k \in 1..n : C15_ImprovementStated(r, k)
            /\ \A k \in 1..(n - 1) : ~C15_Test(history[r][k])
            /\ (pc[r] \in {"loop", "breed"} /\ n >= 1) => ~C15_Test(LastRecord(r))
            /\ (pc[r] \in {"finish", "done"} /\ n >= 1) =>
                  /\ C15_Test(LastRecord(r)) <=> gen[r] = LastRecord(r).generation
                  /\ C15_Test(LastRecord(r)) =>
                        /\ LastRecord(r).best_fitness = SeqMax(fitnesses[r])
                        /\ LastRecord(r).avg_fitness.num = SeqSum(fitnesses[r])
                        /\ (gen[r] = 0 => new_population[r] = <<>>)
                        /\ (gen[r] > 0 => new_population[r] = population[r])

\* A run that returned by convergence at a generation after the first, an
\* earlier generation of it having been below the threshold before
\* min_generations.
C15_Witness ==
    \E r \in runs :
        /\ Returned(r)
        /\ Len(history[r]) >= 2
        /\ Len(history[r]) < max_generations
        /\ C15_Test(LastRecord(r))
        /\ \E k \in 1..(Len(history[r]) - 1) : BelowThreshold(history[r][k])

\* The floor 0.001 of the mutation rate, in units of 1/RateScale.
C16_Floor == RateScale \div 1000

\* Run r is at the adaptive step of a check point, as C16 states it: a
\* generation g > 0 divisible by mutation_halve_interval.
C16_AtCheckPoint(r) ==
    /\ pc[r] = "loop"
    /\ gen[r] < max_generations
    /\ gen[r] > 0
    /\ mutation_halve_interval # 0
    /\ gen[r] % mutation_halve_interval = 0

\* The average of the generation run r is at is strictly greater than the one
\* stored at the previous check point.
C16_Improved(r) ==
    /\ avg_at_last_mutation_check[r] # <<>>
    /\ LET stored == avg_at_last_mutation_check[r][1]
           now    == [num |-> SeqSum(fitnesses[r]), den |-> Len(fitnesses[r])]
       IN  stored.num * now.den < now.num * stored.den

\* C16: the mutation rate changes only at a check point (a generation g > 0
\* divisible by mutation_halve_interval), only when the average is strictly
\* greater than the one stored at the previous check point and the rate is
\* above the floor 0.001, and then to max(rate / 2, 0.001); the stored average
\* becomes the current average at every check point, halved or not, and at
\* no other step; at the first check point the rate is not halved.
C16_RateChangesOnlyAtCheckPoints ==
    [][\A r \in runs :
          LET rate   == current_mutation_rate[r]
              halves == /\ C16_AtCheckPoint(r)
                        /\ C16_Improved(r)
                        /\ rate > C16_Floor
          IN  /\ current_mutation_rate'[r] # rate => halves
              /\ halves =>
                    current_mutation_rate'[r] =
                        (IF rate >= 2 * C16_Floor THEN rate \div 2 ELSE C16_Floor)
              /\ C16_AtCheckPoint(r) =>
                    /\ avg_at_last_mutation_check'[r] = avg_f'[r]
                    /\ avg_f'[r] =
                          <<[num |-> SeqSum(fitnesses[r]), den |-> Len(fitnesses[r])]>>
              /\ ~C16_AtCheckPoint(r) =>
                    avg_at_last_mutation_check'[r] = avg_at_last_mutation_check[r]
              /\ (C16_AtCheckPoint(r) /\ avg_at_last_mutation_check[r] = <<>>) =>
                    current_mutation_rate'[r] = rate
      ]_vars

\* A run whose rate has been halved down to the floor, at its second check
\* point.
C16_Witness ==
    \E r \in runs :
        /\ mutation_rate > C16_Floor
        /\ current_mutation_rate[r] = C16_Floor
        /\ avg_at_last_mutation_check[r] # <<>>
        /\ Len(history[r]) >= 3

\* C17: for population_size >= 1 the population holds exactly population_size
\* schedules after the initialization and after every breeding, also for an
\* odd population_size; the fitness vector has the same length, its entry i
\* being the score of the schedule at index i of that population; the
\* population being bred never holds more.
C17_PopulationSizeAndAlignment ==
    \A r \in runs :
        population_size >= 1 =>
            /\ Len(population[r]) = population_size
            /\ Len(fitnesses[r]) = Len(population[r])
            /\ \A i \in 1..Len(population[r]) :
                  /\ compute_schedule_fitness(population[r][i]).error = "none"
                  /\ fitnesses[r][i] = compute_schedule_fitness(population[r][i]).value
            /\ Len(new_population[r]) <= population_size

\* A population of odd size that was bred (the second child of its last pair
\* dropped) and evaluated.
C17_Witness ==
    \E r \in runs :
        /\ pc[r] = "loop"
        /\ gen[r] >= 1
        /\ population_size % 2 = 1
        /\ mutation_rate > 0
        /\ population[r] = new_population[r]

\* C19: the history is append-only.  The generation fields of its records are
\* 0, 1, ..., n-1 in order and n never exceeds max_generations; a step changes
\* the history only by appending one record to it, and only at the head of the
\* generation loop; every iteration of the generation loop appends exactly
\* one record (an iteration that an exception ends appends at most one).
C19_HistoryAppendOnly ==
    /\ [](\A r \in runs :
            /\ Len(history[r]) <= max_generations
            /\ \A k \in 1..Len(history[r]) : history[r][k].generation = k - 1)
    /\ [][\A r \in runs :
            LET n == Len(history[r])
            IN  /\ history'[r] # history[r] =>
                      /\ pc[r] = "loop"
                      /\ Len(history'[r]) = n + 1
                      /\ SubSeq(history'[r], 1, n) = history[r]
                /\ (pc[r] = "loop" /\ gen[r] < max_generations /\ pc'[r] # pc[r]) =>
                      IF pc'[r] = "raised"
                      THEN Len(history'[r]) \in {n, n + 1}
                      ELSE Len(history'[r]) = n + 1]_vars

\* A run that returned with three records or more, having appended one at each
\* generation.
C19_Witness ==
    \E r \in runs :
        /\ Returned(r)
        /\ Len(history[r]) >= 3
        /\ Len(history[r]) = max_generations

\* The rate run r hands to mutate while it breeds the next population.
C21_BreedingRate(r) == current_mutation_rate[r]

\* C21: the mutation rate never increases, neither from one step of the run to
\* the next nor from one record of the history to the next; a rate that starts
\* at 0.001 or above never falls below 0.001, and a rate that starts below
\* 0.001 never changes; the children of a breeding step are mutated with the
\* current rate, which no step of the breeding changes, and the record of a
\* generation g >= 1 stores that rate.
C21_RateMonotoneAndRecorded ==
    /\ [](\A r \in runs :
            /\ current_mutation_rate[r] <= mutation_rate
            /\ mutation_rate >= C16_Floor => current_mutation_rate[r] >= C16_Floor
            /\ mutation_rate < C16_Floor => current_mutation_rate[r] = mutation_rate
            /\ \A k \in 1..Len(history[r]) :
                  /\ history[r][k].mutation_rate <= mutation_rate
                  /\ mutation_rate >= C16_Floor =>
                        history[r][k].mutation_rate >= C16_Floor
                  /\ mutation_rate < C16_Floor =>
                        history[r][k].mutation_rate = mutation_rate
                  /\ k > 1 => history[r][k].mutation_rate <=
                                 history[r][k - 1].mutation_rate)
    /\ [][\A r \in runs :
            LET n == Len(history[r])
            IN  /\ current_mutation_rate'[r] <= current_mutation_rate[r]
                /\ pc[r] = "breed" =>
                      /\ current_mutation_rate'[r] = C21_BreedingRate(r)
                      /\ new_population'[r] # new_population[r] =>
                            new_population'[r] =
                               BreedStep(population[r], cdf[r], C21_BreedingRate(r),
                                         new_population[r], population_size,
                                         rng[r]).value
                      /\ pc'[r] \in {"breed", "loop", "raised"}
                /\ (pc[r] = "loop" /\ gen[r] >= 1 /\ history'[r] # history[r]) =>
                      /\ history'[r][n + 1].generation = gen[r]
                      /\ history'[r][n + 1].mutation_rate = current_mutation_rate[r]]_vars

\* A run whose rate was halved at a check point: the population of the next
\* generation was bred with the halved rate and the record of that generation
\* stores it, below the rate of the record before.
C21_Witness ==
    \E r \in runs :
        /\ mutation_rate > 2 * C16_Floor
        /\ \E k \in 2..Len(history[r]) :
              /\ history[r][k].mutation_rate = history[r][k - 1].mutation_rate \div 2
              /\ history[r][k].mutation_rate >= C16_Floor

(***************************************************************************)
(* Properties of crossover and mutate over objects                         *)
(***************************************************************************)
\* The schedules held: those of the population, then the children built.
Held == h_population \o h_new_population

\* C18: a child shares no Assignment with a parent or with another child: no
\* object belongs to two schedules held, and a pass of the breeding loop (two
\* crossovers of the same parents, which may be one individual, and two
\* mutations in place) leaves every object that existed before it unchanged,
\* so the population and the children built before stay as they were.
C18_ChildrenShareNothing ==
    /\ [](\A i, j \in 1..Len(Held) :
            \A a, b \in Range(ActivityOrder) :
                Held[i][a] = Held[j][b] => (i = j /\ a = b))
    /\ [][/\ \A id \in 1..Len(h_heap) : h_heap'[id] = h_heap[id]
          /\ DerefAll(h_population, h_heap') = DerefAll(h_population, h_heap)
          /\ DerefAll(h_new_population, h_heap')
                = DerefAll(h_new_population, h_heap)]_vars

\* Two children of one pass, the first of them changed by mutate: one of its
\* assignments is in no schedule of the population.
C18_Witness ==
    /\ h_pc = "breed"
    /\ mutation_rate > 0
    /\ Len(h_new_population) = 2
    /\ \E a \in Range(ActivityOrder) :
          \A k \in 1..Len(h_population) :
              h_heap[h_new_population[1][a]] # h_heap[h_population[k][a]]
====
